---- MODULE Spec2Model ----
(***************************************************************************)
(* A model of virSim.py: SimpleVirus / ResistantVirus particles and the    *)
(* SimplePatient / Patient population update loop.                         *)
(*                                                                         *)
(* Numbers.  Probabilities and the values of random.random() are multiples *)
(* of 1/Resolution: the integer k stands for k/Resolution.  A population   *)
(* density len/float(maxPop) is kept as the pair [num, den], and the test  *)
(* random_float <= maxBirthProb*(1 - popDensity) is decided exactly by     *)
(* cross-multiplication.                                                   *)
(*                                                                         *)
(* Lists.  Python lists are objects: `heap` maps a cell to the contents of *)
(* the list object stored there, and a patient's `viruses` attribute is a  *)
(* cell.  Two names bound to one list object hold the same cell.           *)
(***************************************************************************)
EXTENDS Integers, Sequences, FiniteSets, TLC

VARIABLES heap, patient, frame, ret

vars == <<heap, patient, frame, ret>>

---------------------------------------------------------------------------
(* Bounds of the model *)

\* the most viruses the patients' lists may hold between them after an update()
MaxViruses == 4

\* random.random() returns one of 0/Resolution .. (Resolution-1)/Resolution
Resolution == 3

\* the largest initial population
MaxInit == 2

---------------------------------------------------------------------------
(* Values *)

Draws == 0 .. (Resolution - 1)

\* the next three values of the process-wide random source
RandStreams == [1 .. 3 -> Draws]

Drugs == {"guttagonol", "grimpex"}

\* the order in which the keys of a two-drug resistances dict are iterated
DrugKeys == <<"guttagonol", "grimpex">>

\* lists of drug names without repetition, the empty list included
DrugLists ==
  {<<>>} \cup {<<d>> : d \in Drugs}
         \cup {<<d, e>> : <<d, e>> \in {x \in Drugs \X Drugs : x[1] # x[2]}}

Cells == 0 .. 3

\* the cell of the list the experiment driver built and keeps a name for
Orig == CHOOSE c \in Cells : \A d \in Cells : c <= d

Patients == {"X", "Y"}

InList(x, s) == \E k \in 1 .. Len(s) : s[k] = x

---------------------------------------------------------------------------
(* SimpleVirus *)

SimpleVirus(maxBirthProb, clearProb) ==
  [cls |-> "SimpleVirus", maxBirthProb |-> maxBirthProb, clearProb |-> clearProb]

\* doesClear with the comparison turned round
doesClearInverted(self, random_float) == random_float >= self.clearProb

\* random_float <= self.clearProb
doesClear(self, random_float) == random_float <= self.clearProb

\* random_float <= self.maxBirthProb*(1 - popDensity), popDensity = num/den, den # 0
BirthDrawSucceeds(random_float, maxBirthProb, popDensity) ==
  IF popDensity.den > 0
    THEN random_float * popDensity.den <= maxBirthProb * (popDensity.den - popDensity.num)
    ELSE random_float * popDensity.den >= maxBirthProb * (popDensity.den - popDensity.num)

\* the outcome of SimpleVirus.reproduce(popDensity) when random.random() returns rand[1]
SimpleVirus_reproduce(self, popDensity, rand) ==
  IF BirthDrawSucceeds(rand[1], self.maxBirthProb, popDensity)
    THEN [outcome |-> "child", child |-> <<SimpleVirus(self.maxBirthProb, self.clearProb)>>,
          ndraws |-> 1]
    ELSE [outcome |-> "NoChildException", child |-> <<>>, ndraws |-> 1]

---------------------------------------------------------------------------
(* ResistantVirus *)

ResistantVirus(maxBirthProb, clearProb, resistances, mutProb) ==
  [cls |-> "ResistantVirus", maxBirthProb |-> maxBirthProb, clearProb |-> clearProb,
   resistances |-> resistances, mutProb |-> mutProb]

\* getResistance with a drug that is not a key taken as resisted
getResistanceDefaultTrue(self, drug) ==
  IF drug \in DOMAIN self.resistances
    THEN [exc |-> "none", val |-> self.resistances[drug]]
    ELSE [exc |-> "none", val |-> TRUE]

\* self.resistances[drug] raises KeyError for a drug that is no key of the dict
getResistance(self, drug) ==
  IF drug \in DOMAIN self.resistances
    THEN [exc |-> "none", val |-> self.resistances[drug]]
    ELSE [exc |-> "KeyError", val |-> FALSE]

\* ResistanceLoop with the flag overwritten by every drug: the last drug decides
RECURSIVE ResistanceLoopLastDrug(_, _, _, _)
ResistanceLoopLastDrug(self, activeDrugs, k, resistance) ==
  IF k > Len(activeDrugs)
    THEN [exc |-> "none", val |-> resistance]
    ELSE LET g == getResistance(self, activeDrugs[k]) IN
         IF g.exc # "none"
           THEN g
           ELSE ResistanceLoopLastDrug(self, activeDrugs, k + 1, g.val)

\* the loop `for drug in activeDrugs` of reproduce, from position k on, entered
\* with the local `resistance`
RECURSIVE ResistanceLoop(_, _, _, _)
ResistanceLoop(self, activeDrugs, k, resistance) ==
  IF k > Len(activeDrugs)
    THEN [exc |-> "none", val |-> resistance]
    ELSE LET g == getResistance(self, activeDrugs[k]) IN
         IF g.exc # "none"
           THEN g
           ELSE ResistanceLoop(self, activeDrugs, k + 1,
                               IF ~g.val THEN FALSE ELSE resistance)

\* offres filled in only for the drugs the parent resists
FlippedResistantOnly(resistances) ==
  [d \in {e \in DOMAIN resistances : resistances[e]} |-> FALSE]

\* offres: every flag of self.resistances negated
FlippedResistances(resistances) == [d \in DOMAIN resistances |-> ~resistances[d]]

\* the resistances of the offspring, given the draw randomRes
OffspringResistances(self, randomRes) ==
  IF randomRes <= self.mutProb
    THEN FlippedResistances(self.resistances)
    ELSE self.resistances

\* reproduce with the birth draw taken before the resistance flag is looked at
ResistantVirus_reproduceDrawFirst(self, popDensity, activeDrugs, rand) ==
  LET loop == ResistanceLoop(self, activeDrugs, 1, TRUE) IN
  IF loop.exc # "none"
    THEN [outcome |-> "KeyError", child |-> <<>>, ndraws |-> 0]
    ELSE IF BirthDrawSucceeds(rand[1], self.maxBirthProb, popDensity)
              /\ (loop.val \/ Len(activeDrugs) = 0)
      THEN [outcome |-> "child",
            child |-> <<ResistantVirus(self.maxBirthProb, self.clearProb,
                                       OffspringResistances(self, rand[2]),
                                       self.mutProb)>>,
            ndraws |-> 2]
      ELSE [outcome |-> "NoChildException", child |-> <<>>, ndraws |-> 1]

\* the outcome of ResistantVirus.reproduce(popDensity, activeDrugs) when the
\* calls of random.random() return rand[1], rand[2], ...
ResistantVirus_reproduce(self, popDensity, activeDrugs, rand) ==
  LET loop == ResistanceLoop(self, activeDrugs, 1, TRUE) IN
  IF loop.exc # "none"
    THEN [outcome |-> "KeyError", child |-> <<>>, ndraws |-> 0]
    ELSE IF loop.val \/ Len(activeDrugs) = 0
      THEN IF BirthDrawSucceeds(rand[1], self.maxBirthProb, popDensity)
             THEN [outcome |-> "child",
                   child |-> <<ResistantVirus(self.maxBirthProb, self.clearProb,
                                              OffspringResistances(self, rand[2]),
                                              self.mutProb)>>,
                   ndraws |-> 2]
             ELSE [outcome |-> "NoChildException", child |-> <<>>, ndraws |-> 1]
      ELSE [outcome |-> "NoChildException", child |-> <<>>, ndraws |-> 0]

---------------------------------------------------------------------------
(* SimplePatient and Patient: construction and queries *)

SimplePatient(viruses, maxPop) ==
  [cls |-> "SimplePatient", viruses |-> viruses, maxPop |-> maxPop, drugs |-> <<>>]

Patient(viruses, maxPop) ==
  [cls |-> "Patient", viruses |-> viruses, maxPop |-> maxPop, drugs |-> <<>>]

\* a patient that has not been constructed
NoPatient == [cls |-> "none", viruses |-> Orig, maxPop |-> 1, drugs |-> <<>>]

\* getTotalPop limited to the capacity maxPop
getTotalPopCapped(self) ==
  IF Len(heap[self.viruses]) > self.maxPop
    THEN self.maxPop
    ELSE Len(heap[self.viruses])

getTotalPop(self) == Len(heap[self.viruses])

getPrescriptions(self) == self.drugs

\* addPrescription without the membership test
addPrescriptionAlways(drugs, newDrug) == Append(drugs, newDrug)

\* self.drugs after addPrescription(newDrug)
addPrescription(drugs, newDrug) ==
  IF ~InList(newDrug, drugs) THEN Append(drugs, newDrug) ELSE drugs

\* the inner loop of getResistPop for one virus, from position k on, entered
\* with the local `resistance`
RECURSIVE DrugResistLoop(_, _, _, _)
DrugResistLoop(virus, drugResist, k, resistance) ==
  IF k > Len(drugResist)
    THEN [exc |-> "none", val |-> resistance]
    ELSE LET g == getResistance(virus, drugResist[k]) IN
         IF g.exc # "none"
           THEN g
           ELSE DrugResistLoop(virus, drugResist, k + 1, g.val)

\* the outer loop of getResistPop from virus k on; resistPop is len(resistPop)
RECURSIVE ResistPopLoop(_, _, _, _)
ResistPopLoop(viruses, drugResist, k, resistPop) ==
  IF k > Len(viruses)
    THEN [exc |-> "none", val |-> resistPop]
    ELSE LET r == DrugResistLoop(viruses[k], drugResist, 1, FALSE) IN
         IF r.exc # "none"
           THEN [exc |-> r.exc, val |-> 0]
           ELSE ResistPopLoop(viruses, drugResist, k + 1,
                              IF r.val THEN resistPop + 1 ELSE resistPop)

getResistPop(viruses, drugResist) == ResistPopLoop(viruses, drugResist, 1, 0)

---------------------------------------------------------------------------
(* List objects *)

\* the cells some name is bound to: the driver's list, each patient's
\* self.viruses, and the local virus_pop of an update() in progress
Refs(pt, fr) ==
  {Orig} \cup {pt[p].viruses : p \in {q \in Patients : pt[q].cls # "none"}}
         \cup (IF fr.pc # "idle" THEN {fr.virus_pop} ELSE {})

\* a cell no name is bound to
FreeCell(refs) == CHOOSE c \in Cells \ refs : \A d \in Cells \ refs : c <= d

\* list objects no name is bound to are reclaimed
Collect(h, refs) == [c \in Cells |-> IF c \in refs THEN h[c] ELSE <<>>]

RemoveAt(s, k) == SubSeq(s, 1, k - 1) \o SubSeq(s, k + 1, Len(s))

\* virus_pop.remove(virus) for the virus at position i of the list `viruses`
\* being iterated: the particles are distinct objects, so the first element of
\* virus_pop equal to it is the one left at position i - (number removed so far)
ListRemove(virus_pop, viruses, i) ==
  RemoveAt(virus_pop, i - (Len(viruses) - Len(virus_pop)))

---------------------------------------------------------------------------
(* What a forced random source reports, in the terms of the specification:  *)
(* recorded in the frame of an update() as the draws are taken              *)

\* a clearance draw above clearProb: "no clearance"
DrawAbove(draw, prob) == draw > prob

\* a reproduction draw <= maxBirthProb*(1 - n/maxPop), n the number of viruses
\* left after clearance
DrawAtMostBirthProb(draw, maxBirthProb, n, maxPop) ==
  IF maxPop > 0
    THEN draw * maxPop <= maxBirthProb * (maxPop - n)
    ELSE draw * maxPop >= maxBirthProb * (maxPop - n)

---------------------------------------------------------------------------
(* update(): one action per step of SimplePatient.update / Patient.update *)

NoFrame ==
  [self |-> "none", pc |-> "idle", virus_pop |-> Orig, i |-> 0,
   popDensity |-> [num |-> 0, den |-> 1], entry |-> <<>>,
   noneCleared |-> TRUE, allBelow |-> TRUE, allAbove |-> TRUE, last |-> <<>>]

NoRet == [self |-> "none", op |-> "none", arg |-> <<>>, val |-> 0, exc |-> "none"]

Idle == frame.pc = "idle"

\* virus_pop = self.viruses, without the slice: a second name for one list
AliasCell(viruses, free) == viruses

\* virus_pop = self.viruses[:] binds virus_pop to a new list object
SnapshotCell(viruses, free) == free

\* popDensity = len(virus_pop)/float(self.maxPop)
PopDensity(virus_pop, viruses, maxPop) == [num |-> Len(virus_pop), den |-> maxPop]

\* the reproduction loop iterating the list it appends to: `for virus in self.viruses`
ReproduceOverSelfViruses(fr, pt) == pt[fr.self].viruses

\* the list object the reproduction loop iterates: `for virus in virus_pop`
ReproduceOver(fr, pt) == fr.virus_pop

\* the density worked out again for every call: len(self.viruses)/float(self.maxPop)
DensityRecomputed(fr, h, pt) ==
  [num |-> Len(h[pt[fr.self].viruses]), den |-> pt[fr.self].maxPop]

\* the density handed to reproduce: the local popDensity
DensityPassed(fr, h, pt) == fr.popDensity

\* virus.reproduce(popDensity) / virus.reproduce(popDensity, self.drugs)
Reproduce(self, virus, popDensity, rand) ==
  IF self.cls = "SimplePatient"
    THEN SimpleVirus_reproduce(virus, popDensity, rand)
    ELSE ResistantVirus_reproduce(virus, popDensity, self.drugs, rand)

\* an exception leaves update(): the call ends, nothing is returned
Raise(h, pt, exc) ==
  /\ frame' = NoFrame
  /\ ret' = [self |-> frame.self, op |-> "update", arg |-> <<>>, val |-> 0,
             exc |-> exc]
  /\ heap' = Collect(h, Refs(pt, NoFrame))

RECURSIVE SumLen(_, _, _)
SumLen(pt, h, ps) ==
  IF ps = {} THEN 0
  ELSE LET p == CHOOSE q \in ps : TRUE IN
       Len(h[pt[p].viruses]) + SumLen(pt, h, ps \ {p})

\* the number of viruses in the lists of the constructed patients
Held(pt, h) == SumLen(pt, h, {p \in Patients : pt[p].cls # "none"})

UpdateBegin(p) ==
  /\ Idle
  /\ patient[p].cls # "none"
  /\ Len(heap[patient[p].viruses]) + Held(patient, heap) <= MaxViruses
  /\ LET c == SnapshotCell(patient[p].viruses, FreeCell(Refs(patient, frame))) IN
       /\ heap' = [heap EXCEPT ![c] = heap[patient[p].viruses]]
       /\ frame' = [NoFrame EXCEPT !.self = p, !.pc = "clear", !.virus_pop = c,
                                   !.i = 1, !.entry = heap[patient[p].viruses]]
  /\ ret' = NoRet
  /\ UNCHANGED patient

ClearStep(p) ==
  /\ frame.self = p
  /\ frame.pc = "clear"
  /\ frame.i <= Len(heap[patient[p].viruses])
  /\ \E random_float \in Draws :
       LET viruses == heap[patient[p].viruses]
           virus == viruses[frame.i]
       IN  /\ heap' = IF doesClear(virus, random_float)
                        THEN [heap EXCEPT ![frame.virus_pop] =
                                ListRemove(heap[frame.virus_pop], viruses, frame.i)]
                        ELSE heap
           /\ frame' = [frame EXCEPT
                          !.i = frame.i + 1,
                          !.noneCleared = @ /\ DrawAbove(random_float, virus.clearProb)]
  /\ UNCHANGED <<patient, ret>>

ComputeDensity(p) ==
  /\ frame.self = p
  /\ frame.pc = "clear"
  /\ frame.i > Len(heap[patient[p].viruses])
  /\ IF patient[p].maxPop = 0
       THEN /\ Raise(heap, patient, "ZeroDivisionError")
            /\ UNCHANGED patient
       ELSE LET others == Refs([patient EXCEPT ![p] = NoPatient], frame)
                c == FreeCell(others)
                pt == [patient EXCEPT ![p].viruses = c]
                fr == [frame EXCEPT
                         !.pc = "reproduce", !.i = 1,
                         !.popDensity = PopDensity(heap[frame.virus_pop],
                                                   heap[patient[p].viruses],
                                                   patient[p].maxPop)]
            IN  /\ patient' = pt
                /\ frame' = fr
                /\ heap' = Collect([heap EXCEPT ![c] = heap[frame.virus_pop]],
                                   Refs(pt, fr))
                /\ ret' = ret

\* one pass of the reproduction loop, the random source returning rand
ReproduceWith(p, rand) ==
  /\ frame.self = p
  /\ frame.pc = "reproduce"
  /\ frame.i <= Len(heap[ReproduceOver(frame, patient)])
  /\ LET virus == heap[ReproduceOver(frame, patient)][frame.i]
         popDensity == DensityPassed(frame, heap, patient)
         r == Reproduce(patient[p], virus, popDensity, rand)
         call == [virus |-> virus, popDensity |-> popDensity,
                  outcome |-> r.outcome, child |-> r.child, ndraws |-> r.ndraws]
         below == DrawAtMostBirthProb(rand[1], virus.maxBirthProb,
                                      Len(heap[frame.virus_pop]), patient[p].maxPop)
     IN  IF r.outcome = "KeyError"
           THEN Raise(heap, patient, "KeyError")
           ELSE /\ heap' = IF r.outcome = "child"
                             THEN [heap EXCEPT ![patient[p].viruses] =
                                     Append(heap[patient[p].viruses], r.child[1])]
                             ELSE heap
                /\ frame' = [frame EXCEPT
                               !.i = frame.i + 1,
                               !.allBelow = @ /\ (r.ndraws > 0 => below),
                               !.allAbove = @ /\ (r.ndraws > 0 => ~below),
                               !.last = <<call>>]
                /\ ret' = ret
  /\ UNCHANGED patient

ReproduceStep(p) == \E rand \in RandStreams : ReproduceWith(p, rand)

UpdateReturn(p) ==
  /\ frame.self = p
  /\ frame.pc = "reproduce"
  /\ frame.i > Len(heap[ReproduceOver(frame, patient)])
  /\ ret' = [self |-> p, op |-> "update", arg |-> <<>>,
             val |-> getTotalPop(patient[p]), exc |-> "none"]
  /\ frame' = NoFrame
  /\ heap' = Collect(heap, Refs(patient, NoFrame))
  /\ UNCHANGED patient

---------------------------------------------------------------------------
(* The other calls of the experiment drivers *)

AddPrescription(p) ==
  /\ Idle
  /\ patient[p].cls = "Patient"
  /\ \E newDrug \in Drugs :
       /\ patient' = [patient EXCEPT ![p].drugs = addPrescription(@, newDrug)]
       /\ ret' = [self |-> p, op |-> "addPrescription", arg |-> <<newDrug>>,
                  val |-> 0, exc |-> "none"]
  /\ UNCHANGED <<heap, frame>>

GetResistPop(p) ==
  /\ Idle
  /\ patient[p].cls = "Patient"
  /\ \E drugResist \in DrugLists :
       LET r == getResistPop(heap[patient[p].viruses], drugResist) IN
       ret' = [self |-> p, op |-> "getResistPop", arg |-> drugResist,
               val |-> r.val, exc |-> r.exc]
  /\ UNCHANGED <<heap, patient, frame>>

GetTotalPop(p) ==
  /\ Idle
  /\ patient[p].cls # "none"
  /\ ret' = [self |-> p, op |-> "getTotalPop", arg |-> <<>>,
             val |-> getTotalPop(patient[p]), exc |-> "none"]
  /\ UNCHANGED <<heap, patient, frame>>

\* patientY = Patient(patientX.viruses, maxPop), or Patient(viruses, maxPop)
\* with the driver's own list a second time
NewPatient ==
  /\ Idle
  /\ patient["X"].cls = "Patient"
  /\ patient["Y"].cls = "none"
  /\ \E viruses \in {Orig, patient["X"].viruses} :
       patient' = [patient EXCEPT !["Y"] = Patient(viruses, patient["X"].maxPop)]
  /\ ret' = NoRet
  /\ UNCHANGED <<heap, frame>>

---------------------------------------------------------------------------
(* Initial states: what the drivers construct *)

\* resistances dicts over one or two tracked drugs
ResistanceMaps ==
  [{"guttagonol"} -> BOOLEAN] \cup [Drugs -> BOOLEAN]

\* n particles created in a loop from one parameter set
VirusList(virus, n) == [k \in 1 .. n |-> virus]

InitWith(viruses, first) ==
  /\ heap = [c \in Cells |-> IF c = Orig THEN viruses ELSE <<>>]
  /\ patient = [p \in Patients |-> IF p = "X" THEN first ELSE NoPatient]
  /\ frame = NoFrame
  /\ ret = NoRet

BirthProbs == {1, Resolution}
ClearProbs == {1}
MutProbs == {1}
MaxPops == {1, 2}

Init ==
  \E n \in 1 .. MaxInit, maxBirthProb \in BirthProbs, clearProb \in ClearProbs,
     maxPop \in MaxPops :
    \/ InitWith(VirusList(SimpleVirus(maxBirthProb, clearProb), n),
                SimplePatient(Orig, maxPop))
    \/ \E resistances \in ResistanceMaps, mutProb \in MutProbs :
         InitWith(VirusList(ResistantVirus(maxBirthProb, clearProb,
                                            resistances, mutProb), n),
                  Patient(Orig, maxPop))

\* a step of update(), or a call of addPrescription
Change(p) ==
  \/ UpdateBegin(p)
  \/ ClearStep(p)
  \/ ComputeDensity(p)
  \/ ReproduceStep(p)
  \/ UpdateReturn(p)
  \/ AddPrescription(p)

\* a call that only reads
Query(p) ==
  \/ GetResistPop(p)
  \/ GetTotalPop(p)

Next == \E p \in Patients : Change(p) \/ Query(p)

Spec == Init /\ [][Next]_vars

\* The constructors are handed numbers outside their documented ranges too:
\* a probability below 0 or above 1, a capacity of 0 or less
AnyProbs == {0 - 1, 1, Resolution + 1}
AnyMaxPops == {0 - 1, 0, 1}

InitUnchecked ==
  \E n \in 1 .. MaxInit, maxBirthProb \in AnyProbs, clearProb \in AnyProbs,
     maxPop \in AnyMaxPops :
    \/ InitWith(VirusList(SimpleVirus(maxBirthProb, clearProb), n),
                SimplePatient(Orig, maxPop))
    \/ \E resistances \in [{"guttagonol"} -> BOOLEAN], mutProb \in AnyProbs :
         InitWith(VirusList(ResistantVirus(maxBirthProb, clearProb,
                                           resistances, mutProb), n),
                  Patient(Orig, maxPop))

SpecUnchecked == InitUnchecked /\ [][Next]_vars

\* problem5 and problem6: a second Patient is constructed from the list the
\* first one was constructed from, or from the first one's self.viruses
InitShared ==
  \E n \in 1 .. MaxInit, resistances \in [{"guttagonol"} -> BOOLEAN],
     maxPop \in {2} :
    \E maxBirthProb \in {Resolution}, clearProb \in ClearProbs, mutProb \in MutProbs :
      /\ InitWith(VirusList(ResistantVirus(maxBirthProb, clearProb,
                                           resistances, mutProb), n),
                  Patient(Orig, maxPop))

\* the calls that change a patient, interleaved call by call
NextShared == (\E p \in Patients : Change(p)) \/ NewPatient

SpecShared == InitShared /\ [][NextShared]_vars

---------------------------------------------------------------------------
(* Properties *)

\* the patient whose update() is in progress, and the call of reproduce it
\* made last
Running == patient[frame.self]
LastCall == frame.last[1]
Reproduced == frame.pc = "reproduce" /\ frame.last # <<>>

\* the virus has a True flag for every drug of the list
ResistantToAll(virus, drugList) ==
  \A k \in 1 .. Len(drugList) :
    /\ drugList[k] \in DOMAIN virus.resistances
    /\ virus.resistances[drugList[k]]

CountResistant(viruses, drugList) ==
  Cardinality({k \in 1 .. Len(viruses) : ResistantToAll(viruses[k], drugList)})

\* C1: for a non-empty drug list, getResistPop returns the number of viruses
\* of the population whose flag is True for every listed drug.
C1_ResistPopCountsAllListed ==
  (ret.op = "getResistPop" /\ ret.exc = "none" /\ ret.arg # <<>>)
    => ret.val = CountResistant(heap[patient[ret.self].viruses], ret.arg)

\* C2: getResistPop([]) returns the full population count, the value of
\* getTotalPop().
C2_EmptyListCountsEveryVirus ==
  (ret.op = "getResistPop" /\ ret.exc = "none" /\ ret.arg = <<>>)
    => ret.val = getTotalPop(patient[ret.self])

\* C3: ResistantVirus.reproduce returns an offspring only if activeDrugs is
\* empty or the virus is resistant to every drug in it, whatever the order of
\* the drugs and the draws; with no active drug the resistance map does not
\* block the attempt (the birth draw is taken).
C3_OffspringOnlyIfResistantToAll ==
  (Reproduced /\ Running.cls = "Patient")
    => /\ LastCall.outcome = "child"
            => ResistantToAll(LastCall.virus, Running.drugs)
       /\ Running.drugs = <<>> => LastCall.ndraws >= 1

\* C3 witness: two active drugs, a virus resistant to exactly one of them, and
\* its reproduce call ended without an offspring
C3_Witness ==
  /\ Reproduced
  /\ Running.cls = "Patient"
  /\ Len(Running.drugs) = 2
  /\ DOMAIN LastCall.virus.resistances = Drugs
  /\ \E d \in Drugs : LastCall.virus.resistances[d]
  /\ \E d \in Drugs : ~LastCall.virus.resistances[d]
  /\ LastCall.outcome = "NoChildException"

\* the draw that belongs to drug key d when every key has a draw of its own:
\* rand[1] is the birth draw, the keys follow in the order of the dict
KeyDraw(resistances, d, rand) ==
  LET keys == SelectSeq(DrugKeys, LAMBDA e : e \in DOMAIN resistances)
  IN  rand[1 + CHOOSE k \in 1 .. Len(keys) : keys[k] = d]

PerKeyResistances(virus, rand) ==
  [d \in DOMAIN virus.resistances |->
     IF KeyDraw(virus.resistances, d, rand) <= virus.mutProb
       THEN ~virus.resistances[d]
       ELSE virus.resistances[d]]

\* C4: when ResistantVirus.reproduce succeeds, each flag of the offspring is
\* decided by its own mutation draw: negated iff that key's draw is <= mutProb,
\* inherited otherwise.
C4_EachFlagHasItsOwnDraw ==
  [][\A p \in Patients, rand \in RandStreams :
       (/\ patient[p].cls = "Patient"
        /\ ReproduceWith(p, rand)
        /\ frame'.last # <<>>
        /\ frame'.last[1].outcome = "child")
         => frame'.last[1].child[1].resistances
              = PerKeyResistances(frame'.last[1].virus, rand)]_vars

\* update() has made every pass of its reproduction loop: what it returns is
\* len(self.viruses) as it stands
Returning ==
  /\ frame.pc = "reproduce"
  /\ frame.i > Len(heap[frame.virus_pop])

SelfViruses == heap[Running.viruses]
Survivors == heap[frame.virus_pop]

\* the virus takes a reproduction draw in this update()
TakesBirthDraw(virus) ==
  Running.cls = "SimplePatient" \/ ResistantToAll(virus, Running.drugs)

NumTakingBirthDraw(viruses) ==
  Cardinality({k \in 1 .. Len(viruses) : TakesBirthDraw(viruses[k])})

\* C5 as stated: if every clearance draw is above clearProb and every
\* reproduction draw is <= maxBirthProb*(1-density), a population of N is 2N
\* when update() returns, for SimplePatient and Patient alike.
C5_PopulationDoubles ==
  (Returning /\ frame.noneCleared /\ frame.allBelow)
    => Len(SelfViruses) = 2 * Len(frame.entry)

\* C5 amended: reproduce is called once for each survivor of clearance and
\* never for an offspring of the same call; with the draws forced as above a
\* population of N is N plus the number of its viruses that take a
\* reproduction draw (every virus of a SimplePatient; in a Patient those
\* resistant to every active drug): 2N when all of them do.
C5_EachSurvivorReproducesOnce ==
  frame.pc = "reproduce"
    => /\ frame.i <= Len(Survivors) + 1
       /\ Len(SelfViruses) <= Len(Survivors) + (frame.i - 1)
       /\ (Returning /\ frame.noneCleared /\ frame.allBelow)
            => /\ Len(SelfViruses)
                    = Len(frame.entry) + NumTakingBirthDraw(frame.entry)
               /\ NumTakingBirthDraw(frame.entry) = Len(frame.entry)
                    => Len(SelfViruses) = 2 * Len(frame.entry)

\* C5 witness: a Patient with an active drug returns from an update() that
\* doubled a population of two
C5_Witness ==
  /\ Returning
  /\ frame.noneCleared
  /\ frame.allBelow
  /\ Running.cls = "Patient"
  /\ Running.drugs # <<>>
  /\ Len(frame.entry) = 2
  /\ Len(SelfViruses) = 4

\* C6: within one update() the density is computed once, as (number of
\* viruses left after all clearance decisions)/maxPop, and that value is
\* passed to every reproduce call of the step, however many offspring have
\* been appended meanwhile.
C6_DensityFixedAfterClearance ==
  frame.pc = "reproduce"
    => LET density == [num |-> Len(Survivors), den |-> Running.maxPop] IN
       /\ frame.popDensity = density
       /\ frame.last # <<>> => LastCall.popDensity = density
       /\ IF frame.noneCleared
            THEN density.num = Len(frame.entry)
            ELSE density.num < Len(frame.entry)

\* C6 witness: the second reproduce call of a step, made after an offspring
\* was appended, was passed the density of the two survivors
C6_Witness ==
  /\ Reproduced
  /\ frame.i = 3
  /\ Len(Survivors) = 2
  /\ Len(SelfViruses) > Len(Survivors)
  /\ LastCall.popDensity.num = 2

\* C7: a drug in getPrescriptions() stays in it, addPrescription of a drug
\* already active leaves the list as it is, the list never holds a drug twice,
\* and no step of update() changes it.
NoDuplicates(s) == \A j, k \in 1 .. Len(s) : s[j] = s[k] => j = k

C7_PrescriptionsOnlyGrow ==
  [][\A p \in Patients :
       /\ \A d \in Drugs :
            InList(d, getPrescriptions(patient[p]))
              => InList(d, getPrescriptions(patient'[p]))
       /\ NoDuplicates(getPrescriptions(patient'[p]))
       /\ (frame.self = p \/ frame'.self = p)
            => getPrescriptions(patient'[p]) = getPrescriptions(patient[p])
       /\ (/\ ret'.self = p
           /\ ret'.op = "addPrescription"
           /\ InList(ret'.arg[1], getPrescriptions(patient[p])))
            => getPrescriptions(patient'[p]) = getPrescriptions(patient[p])]_vars

\* C7 witness: addPrescription("guttagonol") has just returned, and guttagonol
\* stands before grimpex in the list: it was active when the call was made
C7_Witness ==
  /\ ret.op = "addPrescription"
  /\ ret.arg = <<"guttagonol">>
  /\ getPrescriptions(patient[ret.self]) = <<"guttagonol", "grimpex">>

\* C10: if in an update() every clearance draw is above clearProb and every
\* reproduction draw is above maxBirthProb*(1-density), the population it
\* returns with is the one it was called on: the same viruses, the same count.
\* The value returned is that count, and between two update() calls no other
\* call changes the population, so this holds over any number of update()
\* calls.
UnchangedWithoutEvents ==
  /\ (Returning /\ frame.noneCleared /\ frame.allAbove)
       => SelfViruses = frame.entry
  /\ Idle => \A p \in Patients :
               (ret.self = p /\ ret.op = "update" /\ ret.exc = "none")
                 => ret.val = Len(heap[patient[p].viruses])

C10_PopulationUnchangedWithoutEvents ==
  /\ []UnchangedWithoutEvents
  /\ [][\A p \in Patients :
          /\ (Idle /\ Idle' /\ patient[p].cls # "none")
               => heap'[patient'[p].viruses] = heap[patient[p].viruses]
          /\ (Returning /\ Idle' /\ frame.self = p)
               => /\ ret'.val = Len(heap[patient[p].viruses])
                  /\ heap'[patient'[p].viruses] = heap[patient[p].viruses]]_vars

\* C10 witness: an update() of two viruses in which both took a clearance draw
\* and a reproduction draw returns with the two
C10_Witness ==
  /\ Returning
  /\ frame.noneCleared
  /\ frame.allAbove
  /\ Running.cls = "SimplePatient"
  /\ Len(frame.entry) = 2
  /\ LastCall.ndraws >= 1
  /\ SelfViruses = frame.entry

\* the parameters the constructors document: probabilities between 0 and 1,
\* a positive capacity
ValidVirus(virus) ==
  /\ virus.maxBirthProb \in 0 .. Resolution
  /\ virus.clearProb \in 0 .. Resolution
  /\ virus.cls = "ResistantVirus" => virus.mutProb \in 0 .. Resolution

ValidPatient(self) ==
  /\ self.maxPop > 0
  /\ \A k \in 1 .. Len(heap[self.viruses]) : ValidVirus(heap[self.viruses][k])

\* C8: a virus with a probability outside [0,1] or a patient with a
\* non-positive maxPop is rejected at construction: update() never runs to its
\* return on such an object.
C8_InvalidConstructionRejected ==
  \A p \in Patients :
    (ret.self = p /\ ret.op = "update" /\ ret.exc = "none")
      => ValidPatient(patient[p])

\* what a caller observes through patient p
View(p) == <<heap[patient[p].viruses], patient[p].drugs, patient[p].maxPop>>

\* the patient a step belongs to: the one whose update() is running or
\* starts, else the one whose call returned
Actor ==
  IF frame.self # "none" THEN frame.self
  ELSE IF frame'.self # "none" THEN frame'.self
  ELSE ret'.self

\* C9: patients constructed from one list, or one from the other's
\* self.viruses, are independent: no step of a call on one changes the
\* population, the count or the active drugs seen through the other, and the
\* list the caller built is never modified.
C9_PatientsIndependent ==
  [][/\ heap'[Orig] = heap[Orig]
     /\ \A p \in Patients :
          (patient[p].cls # "none" /\ Actor # p) => View(p)' = View(p)]_vars

\* C9 witness: Y was constructed from X's self.viruses after X had been
\* updated, both have the caller's drugs apart, and a later update() has left
\* the two populations different
C9_Witness ==
  /\ Idle
  /\ patient["Y"].cls = "Patient"
  /\ patient["Y"].viruses # Orig
  /\ patient["X"].viruses # patient["Y"].viruses
  /\ heap[patient["X"].viruses] # heap[patient["Y"].viruses]
  /\ heap[patient["X"].viruses] # heap[Orig]
  /\ patient["X"].drugs # patient["Y"].drugs

\* the reproduce call update() makes next, on the virus at position frame.i
Pending == frame.pc = "reproduce" /\ frame.i <= Len(Survivors)
PendingVirus == Survivors[frame.i]

\* what reproduce signals when eligibility fails: no offspring, no draw taken
NoOffspringNoDraw == [outcome |-> "NoChildException", child |-> <<>>, ndraws |-> 0]

\* C11: a ResistantVirus that is not resistant to every active drug signals
\* no-offspring without taking any draw from the random source: the call that
\* update() made on it took zero draws, and the outcome of reproduce on it is
\* the same for every value the random source could return.  The same holds
\* for the call about to be made, where a lookup of a drug that is not a key
\* of the resistances map ends the call before any draw as well.
C11_IneligibleTakesNoDraw ==
  /\ (Reproduced /\ Running.cls = "Patient"
        /\ ~ResistantToAll(LastCall.virus, Running.drugs)
        /\ Running.drugs # <<>>)
       => /\ LastCall.ndraws = 0
          /\ LastCall.outcome = "NoChildException"
          /\ \A rand \in RandStreams :
               ResistantVirus_reproduce(LastCall.virus, LastCall.popDensity,
                                        Running.drugs, rand) = NoOffspringNoDraw
  /\ (Pending /\ Running.cls = "Patient"
        /\ ~ResistantToAll(PendingVirus, Running.drugs)
        /\ Running.drugs # <<>>)
       => \A rand \in RandStreams :
            LET r == ResistantVirus_reproduce(PendingVirus, frame.popDensity,
                                              Running.drugs, rand)
            IN  r.ndraws = 0 /\ r.outcome # "child"

\* C11 witness: activeDrugs is [guttagonol, grimpex], the virus is resistant
\* to guttagonol only, and its reproduce call has ended with no draw taken
C11_Witness ==
  /\ Reproduced
  /\ Running.cls = "Patient"
  /\ Running.drugs = <<"guttagonol", "grimpex">>
  /\ LastCall.virus.resistances = [d \in Drugs |-> d = "guttagonol"]
  /\ LastCall.ndraws = 0
  /\ LastCall.outcome = "NoChildException"

\* two particles of one class with the same probabilities and, for
\* ResistantVirus, the same mutProb and the same drugs as keys
SameParameters(a, b) ==
  /\ a.cls = b.cls
  /\ a.maxBirthProb = b.maxBirthProb
  /\ a.clearProb = b.clearProb
  /\ a.cls = "ResistantVirus"
       => /\ a.mutProb = b.mutProb
          /\ DOMAIN a.resistances = DOMAIN b.resistances

\* the list objects in use: those of the patients, the driver's own, and the
\* local virus_pop of the update() in progress
ListsInUse == {heap[c] : c \in Refs(patient, frame)}

\* the first virus of the list the driver built
Founder == heap[Orig][1]

\* C12: an offspring returned by reproduce has its parent's maxBirthProb,
\* clearProb and (ResistantVirus) mutProb and a resistances map over exactly
\* the parent's keys; the parent stands in the population as it was when
\* reproduce was called on it; and every virus of every list update() has
\* produced from a population sharing one parameter set and key set shares
\* them still.
C12_OffspringKeepsParameters ==
  /\ (Reproduced /\ LastCall.outcome = "child")
       => /\ SameParameters(LastCall.child[1], LastCall.virus)
          /\ SelfViruses[Len(SelfViruses)] = LastCall.child[1]
  /\ Reproduced
       => /\ Survivors[frame.i - 1] = LastCall.virus
          /\ SelfViruses[frame.i - 1] = LastCall.virus
  /\ \A viruses \in ListsInUse :
       \A k \in 1 .. Len(viruses) : SameParameters(viruses[k], Founder)

\* C12 witness: a virus with a flag for each of two drugs, resistant to one
\* of them, has had an offspring whose flags differ from its own
C12_Witness ==
  /\ Reproduced
  /\ LastCall.outcome = "child"
  /\ LastCall.virus.cls = "ResistantVirus"
  /\ DOMAIN LastCall.virus.resistances = Drugs
  /\ \E d \in Drugs : LastCall.virus.resistances[d]
  /\ \E d \in Drugs : ~LastCall.virus.resistances[d]
  /\ LastCall.child[1].resistances # LastCall.virus.resistances

\* C13: maxPop is not a hard cap.  update() never truncates: in its
\* reproduction loop self.viruses is the survivors of clearance, all of them
\* and in their order, followed by the offspring appended so far, however
\* many that makes; an offspring just returned is in the list; the number
\* update() returns is the length of that list, above maxPop or not; and a
\* population above maxPop makes update() raise nothing (the only exception
\* that leaves update() is the KeyError of a drug lookup).
C13_UpdateNeverTruncates ==
  /\ frame.pc = "reproduce"
       => /\ Len(SelfViruses) >= Len(Survivors)
          /\ SubSeq(SelfViruses, 1, Len(Survivors)) = Survivors
  /\ (Reproduced /\ LastCall.outcome = "child")
       => Len(SelfViruses) >= Len(Survivors) + 1
  /\ (ret.op = "update" /\ ret.exc = "none")
       => ret.val = Len(heap[patient[ret.self].viruses])
  /\ (ret.op = "update" /\ ret.exc # "none") => ret.exc = "KeyError"

\* C13 witness: the driver built a population of at most maxPop viruses, a
\* later update() was entered with more than maxPop and has run through both
\* of its loops, and the population it is about to return is above maxPop
C13_Witness ==
  /\ Returning
  /\ Len(heap[Orig]) <= Running.maxPop
  /\ Len(frame.entry) > Running.maxPop
  /\ Len(SelfViruses) > Running.maxPop

\* the virus has a flag for the drug and the flag is True
Resists(virus, drug) ==
  drug \in DOMAIN virus.resistances /\ virus.resistances[drug]

\* the patient has an active drug that no virus of its population resists
NoneResistSomeDrug(p) ==
  /\ patient[p].cls = "Patient"
  /\ \E k \in 1 .. Len(patient[p].drugs) :
       \A j \in 1 .. Len(heap[patient[p].viruses]) :
         ~Resists(heap[patient[p].viruses][j], patient[p].drugs[k])

\* C14: once a Patient has an active drug that no virus of its current
\* population resists, this stays so and no step of any later update() adds a
\* virus, whatever the draws and whatever drugs are prescribed afterwards:
\* the population never grows again, and a value update() returns is never
\* above the population that was there before.
C14_NoGrowthOnceNoneResist ==
  [][\A p \in Patients :
       NoneResistSomeDrug(p)
         => /\ NoneResistSomeDrug(p)'
            /\ Len(heap'[patient'[p].viruses]) <= Len(heap[patient[p].viruses])
            /\ (ret'.op = "update" /\ ret'.self = p /\ ret'.exc = "none"
                  /\ ret' # ret)
                 => ret'.val <= Len(heap[patient[p].viruses])]_vars

\* C14 witness: update() was entered with two active drugs and a population
\* that resists one of them and not the other, no virus was cleared, and
\* after the whole reproduction loop the population is what it was
C14_Witness ==
  /\ Returning
  /\ NoneResistSomeDrug(frame.self)
  /\ Len(Running.drugs) = 2
  /\ Len(frame.entry) >= 2
  /\ \A k \in 1 .. Len(frame.entry) : \E d \in Drugs : Resists(frame.entry[k], d)
  /\ frame.noneCleared
  /\ SelfViruses = frame.entry

====
